---- MODULE Spec2Model ----
(***************************************************************************)
(* A model of python/get-gmp-data.py: one run of the script that builds a  *)
(* Basic-Auth header and a request URL, issues one HTTP GET against the    *)
(* Green Mountain Power usage API, decodes the JSON body and dumps it to   *)
(* a file.                                                                 *)
(*                                                                         *)
(* Python strings are sequences of Unicode code points, bytes are          *)
(* sequences of 0..255.  The response body and the output file are         *)
(* sequences of JSON tokens (json.dump writes the file one such chunk at a *)
(* time).  Every statement of the script is one action; pc names the line  *)
(* about to be executed.                                                   *)
(***************************************************************************)
EXTENDS Integers, Sequences, FiniteSets, TLC

VARIABLES
    GMPaccount, apiKeyId, apiKeySecret,     \* lines 12-14
    requestInterval, startDate, endDate,    \* lines 17-19
    GMPapi,                                 \* line 27
    idSecret, b64Key, reqHead,              \* lines 30-34
    GMPcontent,                             \* line 37: the response object
    json_GMPcontent,                        \* line 41: the decoded body
    outfile,                                \* line 45: the file object
    pc,                                     \* the line about to run
    exc,                                    \* the exception that propagated
    wire,                                   \* the requests put on the network
    stdout,                                 \* what print() wrote
    platform,                               \* the os the interpreter runs on
    fs, fs0                                 \* the file system now / at start

vars == <<GMPaccount, apiKeyId, apiKeySecret, requestInterval, startDate,
          endDate, GMPapi, idSecret, b64Key, reqHead, GMPcontent,
          json_GMPcontent, outfile, pc, exc, wire, stdout, platform, fs, fs0>>

config == <<GMPaccount, apiKeyId, apiKeySecret, requestInterval, startDate,
            endDate>>

-----------------------------------------------------------------------------
(* Bounds of the model *)

\* longest apiKeyId drawn by InitRequest
MaxIdLen == 2
\* longest apiKeySecret drawn by InitRequest
MaxSecretLen == 1
\* longest "intervals" array in a generated response body
MaxIntervals == 2
\* largest elapsed time (in seconds) of a response
MaxElapsed == 1

-----------------------------------------------------------------------------
(* String literals of the script, as code points *)

\* "https://api.greenmountainpower.com/api/v2/usage/"
GMPapiURL ==
    <<104, 116, 116, 112, 115, 58, 47, 47, 97, 112, 105, 46, 103, 114, 101,
      101, 110, 109, 111, 117, 110, 116, 97, 105, 110, 112, 111, 119, 101,
      114, 46, 99, 111, 109, 47, 97, 112, 105, 47, 118, 50, 47, 117, 115, 97,
      103, 101, 47>>
\* "/"
Slash == <<47>>
\* "?startDate="
QStartDate == <<63, 115, 116, 97, 114, 116, 68, 97, 116, 101, 61>>
\* "T00:00:00Z&endDate="
StartSuffix ==
    <<84, 48, 48, 58, 48, 48, 58, 48, 48, 90, 38, 101, 110, 100, 68, 97, 116,
      101, 61>>
\* "T23:59:59Z&temp=f"
EndSuffix ==
    <<84, 50, 51, 58, 53, 57, 58, 53, 57, 90, 38, 116, 101, 109, 112, 61, 102>>
\* ":"
ColonStr == <<58>>
\* "Basic "
BasicPrefix == <<66, 97, 115, 105, 99, 32>>
\* "..\dat4.json": \d is no escape sequence, the backslash stays
OutPath == <<46, 46, 92, 100, 97, 116, 52, 46, 106, 115, 111, 110>>

\* "ABCDEFGHIJKLMNOPQRSTUVWXYZabcdefghijklmnopqrstuvwxyz0123456789+/"
B64Alphabet ==
    <<65, 66, 67, 68, 69, 70, 71, 72, 73, 74, 75, 76, 77, 78, 79, 80, 81, 82,
      83, 84, 85, 86, 87, 88, 89, 90, 97, 98, 99, 100, 101, 102, 103, 104,
      105, 106, 107, 108, 109, 110, 111, 112, 113, 114, 115, 116, 117, 118,
      119, 120, 121, 122, 48, 49, 50, 51, 52, 53, 54, 55, 56, 57, 43, 47>>
\* "=", the padding character of base64
B64Pad == <<61>>

-----------------------------------------------------------------------------
(* str.encode("utf-8"), base64.b64encode, str(bytes, "utf-8") *)

\* Utf8Char as str.encode("latin-1") would have it: one byte per character
Utf8Char_Latin1(cp) == <<cp>>

\* the UTF-8 bytes of one code point (below U+10000, no surrogate)
Utf8Char(cp) ==
    IF cp < 128 THEN <<cp>>
    ELSE IF cp < 2048 THEN <<192 + (cp \div 64), 128 + (cp % 64)>>
    ELSE <<224 + (cp \div 4096), 128 + ((cp \div 64) % 64), 128 + (cp % 64)>>

RECURSIVE Utf8Encode(_)
Utf8Encode(s) ==
    IF s = <<>> THEN <<>> ELSE Utf8Char(Head(s)) \o Utf8Encode(Tail(s))

\* the base64 character of a sextet
B64Char(n) == B64Alphabet[n + 1]

RECURSIVE b64encode(_)
b64encode(bytes) ==
    IF Len(bytes) = 0 THEN <<>>
    ELSE IF Len(bytes) = 1 THEN
        <<B64Char(bytes[1] \div 4), B64Char((bytes[1] % 4) * 16)>>
            \o B64Pad \o B64Pad
    ELSE IF Len(bytes) = 2 THEN
        <<B64Char(bytes[1] \div 4),
          B64Char((bytes[1] % 4) * 16 + (bytes[2] \div 16)),
          B64Char((bytes[2] % 16) * 4)>> \o B64Pad
    ELSE
        <<B64Char(bytes[1] \div 4),
          B64Char((bytes[1] % 4) * 16 + (bytes[2] \div 16)),
          B64Char((bytes[2] % 16) * 4 + (bytes[3] \div 64)),
          B64Char(bytes[3] % 64)>> \o b64encode(SubSeq(bytes, 4, Len(bytes)))

\* str(b, "utf-8") of ASCII bytes: each byte is its own code point
StrOfAscii(bytes) == bytes

RECURSIVE PercentEncoded(_)
\* s with every space written %20
PercentEncoded(s) ==
    IF s = <<>> THEN <<>>
    ELSE (IF Head(s) = 32 THEN <<37, 50, 48>> ELSE <<Head(s)>>) \o PercentEncoded(Tail(s))

\* AssembledURL with the account percent-encoded
AssembledURL_Quoted(account, interval, start, end) ==
    GMPapiURL \o PercentEncoded(account) \o Slash \o interval \o QStartDate \o start
        \o StartSuffix \o end \o EndSuffix

\* line 27, the right-hand side
AssembledURL(account, interval, start, end) ==
    GMPapiURL \o account \o Slash \o interval \o QStartDate \o start
        \o StartSuffix \o end \o EndSuffix

\* line 30, the right-hand side
JoinIdSecret(id, secret) == id \o ColonStr \o secret

\* line 31, the right-hand side
EncodeKey(s) == StrOfAscii(b64encode(Utf8Encode(s)))

\* lines 32-34, the right-hand side: a dict with one key
AuthHeaders(key) == {[name |-> "Authorization", value |-> BasicPrefix \o key]}

-----------------------------------------------------------------------------
(* JSON text: a sequence of tokens *)

Punct(v) == [k |-> "punct", v |-> v]
StrTok(v) == [k |-> "str", v |-> v]
NumTok(v) == [k |-> "num", v |-> v]
LitTok(v) == [k |-> "lit", v |-> v]
\* text no JSON token starts with, such as an HTML error page
JunkTok(v) == [k |-> "junk", v |-> v]

\* the number literals the json module reads though RFC 8259 has none such
NonFiniteLiterals == {"NaN", "Infinity", "-Infinity"}

(* The decoded values: None/True/False, int and float, str, list, dict.   *)
(* A dict keeps its keys in insertion order: keys[i] maps to items[i].    *)
PyLit(v) == [t |-> "lit", s |-> v, items |-> <<>>, keys |-> <<>>]
PyNum(v) == [t |-> "num", s |-> v, items |-> <<>>, keys |-> <<>>]
PyStr(v) == [t |-> "str", s |-> v, items |-> <<>>, keys |-> <<>>]
PyList(items) == [t |-> "list", s |-> "", items |-> items, keys |-> <<>>]
PyDict(keys, items) == [t |-> "dict", s |-> "", items |-> items, keys |-> keys]
\* a name not bound yet
Unbound == [t |-> "unbound", s |-> "", items |-> <<>>, keys |-> <<>>]

\* int(lit) or float(lit), written as repr() prints it
NumberOf(lit) ==
    CASE lit = "1.50" -> "1.5"
      [] lit = "1e2" -> "100.0"
      [] lit = "1e999" -> "Infinity"
      [] OTHER -> lit

\* d[k] = v on a dict given by its keys and items
DictSet(keys, items, k, v) ==
    IF \E i \in 1..Len(keys) : keys[i] = k
    THEN [keys |-> keys,
          items |-> [i \in 1..Len(items) |-> IF keys[i] = k THEN v ELSE items[i]]]
    ELSE [keys |-> Append(keys, k), items |-> Append(items, v)]

ParseOk(v, n) == [ok |-> TRUE, val |-> v, next |-> n]
ParseFail == [ok |-> FALSE, val |-> Unbound, next |-> 0]

TokAt(toks, i) == IF i <= Len(toks) THEN toks[i] ELSE JunkTok("")

RECURSIVE ParseValue(_, _), ParseElements(_, _, _), ParseMembers(_, _, _, _)

\* the JSON value starting at toks[i], and the index after it
ParseValue(toks, i) ==
    LET tk == TokAt(toks, i) IN
    CASE tk.k = "lit" -> ParseOk(PyLit(tk.v), i + 1)
      [] tk.k = "num" -> ParseOk(PyNum(NumberOf(tk.v)), i + 1)
      [] tk.k = "str" -> ParseOk(PyStr(tk.v), i + 1)
      [] tk = Punct("[") ->
            IF TokAt(toks, i + 1) = Punct("]")
            THEN ParseOk(PyList(<<>>), i + 2)
            ELSE ParseElements(toks, i + 1, <<>>)
      [] tk = Punct("{") ->
            IF TokAt(toks, i + 1) = Punct("}")
            THEN ParseOk(PyDict(<<>>, <<>>), i + 2)
            ELSE ParseMembers(toks, i + 1, <<>>, <<>>)
      [] OTHER -> ParseFail

\* the rest of an array whose elements so far are acc
ParseElements(toks, i, acc) ==
    LET r == ParseValue(toks, i) IN
    IF ~r.ok THEN ParseFail
    ELSE IF TokAt(toks, r.next) = Punct(",")
         THEN ParseElements(toks, r.next + 1, Append(acc, r.val))
    ELSE IF TokAt(toks, r.next) = Punct("]")
         THEN ParseOk(PyList(Append(acc, r.val)), r.next + 1)
    ELSE ParseFail

\* the rest of an object whose members so far are keys/items
ParseMembers(toks, i, keys, items) ==
    IF TokAt(toks, i).k # "str" \/ TokAt(toks, i + 1) # Punct(":") THEN ParseFail
    ELSE LET r == ParseValue(toks, i + 2)
             d == DictSet(keys, items, toks[i].v, r.val)
         IN  IF ~r.ok THEN ParseFail
             ELSE IF TokAt(toks, r.next) = Punct(",")
                  THEN ParseMembers(toks, r.next + 1, d.keys, d.items)
             ELSE IF TokAt(toks, r.next) = Punct("}")
                  THEN ParseOk(PyDict(d.keys, d.items), r.next + 1)
             ELSE ParseFail

\* json.loads: one value and nothing after it, else JSONDecodeError
loads(toks) ==
    LET r == ParseValue(toks, 1) IN
    IF r.ok /\ r.next = Len(toks) + 1 THEN r ELSE ParseFail

RECURSIVE Encode(_), EncodeElements(_, _), EncodeMembers(_, _, _)

\* the chunks JSONEncoder.iterencode yields for a value
Encode(v) ==
    CASE v.t = "lit" -> <<LitTok(v.s)>>
      [] v.t = "num" -> <<NumTok(v.s)>>
      [] v.t = "str" -> <<StrTok(v.s)>>
      [] v.t = "list" -> <<Punct("[")>> \o EncodeElements(v.items, 1) \o <<Punct("]")>>
      [] v.t = "dict" ->
            <<Punct("{")>> \o EncodeMembers(v.keys, v.items, 1) \o <<Punct("}")>>

EncodeElements(items, i) ==
    IF i > Len(items) THEN <<>>
    ELSE (IF i > 1 THEN <<Punct(",")>> ELSE <<>>)
            \o Encode(items[i]) \o EncodeElements(items, i + 1)

EncodeMembers(keys, items, i) ==
    IF i > Len(keys) THEN <<>>
    ELSE (IF i > 1 THEN <<Punct(",")>> ELSE <<>>)
            \o <<StrTok(keys[i]), Punct(":")>> \o Encode(items[i])
            \o EncodeMembers(keys, items, i + 1)

\* obj[key]: "ok", or the exception the subscript raises
Subscript(obj, key) ==
    IF obj.t = "dict"
    THEN IF \E i \in 1..Len(obj.keys) : obj.keys[i] = key THEN "ok" ELSE "KeyError"
    ELSE "TypeError"

-----------------------------------------------------------------------------
(* Paths and the file system *)

\* os.sep and os.altsep: what separates the components of a path
Separators(os) == IF os = "nt" THEN {47, 92} ELSE {47}

\* ".."
DotDot == <<46, 46>>

RECURSIVE SplitPath(_, _, _)
\* the components of path; cur is the component read so far
SplitPath(path, seps, cur) ==
    IF path = <<>> THEN <<cur>>
    ELSE IF Head(path) \in seps THEN <<cur>> \o SplitPath(Tail(path), seps, <<>>)
    ELSE SplitPath(Tail(path), seps, Append(cur, Head(path)))

RECURSIVE Walk(_, _)
\* from the location at, follow the components comps
Walk(at, comps) ==
    IF comps = <<>> THEN at
    ELSE IF Head(comps) = DotDot /\ at.names = <<>>
         THEN Walk([up |-> at.up + 1, names |-> <<>>], Tail(comps))
    ELSE IF Head(comps) = DotDot
         THEN Walk([up |-> at.up, names |-> SubSeq(at.names, 1, Len(at.names) - 1)],
                   Tail(comps))
    ELSE IF Head(comps) = <<>> \/ Head(comps) = <<46>> THEN Walk(at, Tail(comps))
    ELSE Walk([up |-> at.up, names |-> Append(at.names, Head(comps))], Tail(comps))

\* the file a relative path names: up directories above the working
\* directory, then down through names
ResolvePath(path, os) == Walk([up |-> 0, names |-> <<>>], SplitPath(path, Separators(os), <<>>))

\* open(path, "w") that succeeds: the file exists and is empty
Truncated(files, loc) == [l \in (DOMAIN files) \cup {loc} |-> IF l = loc THEN <<>> ELSE files[l]]

\* the file at loc holding data
WithData(files, loc, data) == [l \in (DOMAIN files) \cup {loc} |-> IF l = loc THEN data ELSE files[l]]

\* what an earlier run may have left in a file
OldData == <<Punct("{"), StrTok("accountNumber"), Punct(":"), StrTok("A0"), Punct(","),
             StrTok("intervals"), Punct(":"), Punct("["), Punct("]"), Punct("}")>>

\* the file systems a run may start in: files earlier runs left, on either os
InitialFileSystems ==
    {[l \in ls |-> OldData] :
        ls \in SUBSET {ResolvePath(OutPath, "nt"), ResolvePath(OutPath, "posix")}}

\* the file object before line 45 binds it
NoFile == [state |-> "unbound", loc |-> [up |-> 0, names |-> <<>>]]

-----------------------------------------------------------------------------
(* The inputs: the user-supplied variables and what the remote end sends *)

StringsUpTo(chars, n) == UNION {[1..m -> chars] : m \in 0..n}

\* "a", ":" and U+00E9 (two bytes in UTF-8)
KeyChars == {97, 58, 233}

\* "" (as in the source) and "1 2/?"
Accounts == {<<>>, <<49, 32, 50, 47, 63>>}
\* "hourly", "daily", "monthly", and "weekly", which the API does not know
Intervals ==
    {<<104, 111, 117, 114, 108, 121>>, <<100, 97, 105, 108, 121>>,
     <<109, 111, 110, 116, 104, 108, 121>>, <<119, 101, 101, 107, 108, 121>>}
\* "2016-11-05"
Date05 == <<50, 48, 49, 54, 45, 49, 49, 45, 48, 53>>
\* "2016-11-06"
Date06 == <<50, 48, 49, 54, 45, 49, 49, 45, 48, 54>>
\* <<startDate, endDate>>: equal as in the source, in order, reversed
DateRanges == {<<Date05, Date05>>, <<Date05, Date06>>, <<Date06, Date05>>}

\* the configurations of the source as committed, and one filled in
RunConfigs ==
    {<<<<>>, <<>>, <<>>, <<104, 111, 117, 114, 108, 121>>, Date05, Date05>>,
     <<<<49, 32, 50, 47, 63>>, <<97, 58>>, <<233>>, <<119, 101, 101, 107, 108, 121>>,
       Date06, Date05>>}

Statuses == {200, 401, 500}

ResponseKeys == <<"accountNumber", "intervals", "extra">>
IntervalLits == <<"1", "2", "3">>

RECURSIVE IntervalTokens(_, _)
IntervalTokens(i, n) ==
    IF i > n THEN <<>>
    ELSE (IF i > 1 THEN <<Punct(",")>> ELSE <<>>)
            \o <<NumTok(IntervalLits[((i - 1) % 3) + 1])>> \o IntervalTokens(i + 1, n)

MemberTokens(key, n) ==
    <<StrTok(key), Punct(":")>> \o
    (CASE key = "accountNumber" -> <<StrTok("A1")>>
       [] key = "intervals" -> <<Punct("[")>> \o IntervalTokens(1, n) \o <<Punct("]")>>
       [] OTHER -> <<LitTok("null")>>)

RECURSIVE MembersFrom(_, _, _, _)
MembersFrom(i, ks, n, first) ==
    IF i > Len(ResponseKeys) THEN <<>>
    ELSE IF ResponseKeys[i] \in ks
         THEN (IF first THEN <<>> ELSE <<Punct(",")>>)
                 \o MemberTokens(ResponseKeys[i], n) \o MembersFrom(i + 1, ks, n, FALSE)
    ELSE MembersFrom(i + 1, ks, n, first)

\* the body that is an object with the keys ks and n intervals
ObjectBody(ks, n) == <<Punct("{")>> \o MembersFrom(1, ks, n, TRUE) \o <<Punct("}")>>

ObjectBodies ==
    {ObjectBody(ks, n) : ks \in SUBSET {"accountNumber", "intervals", "extra"},
                         n \in 0..MaxIntervals}

OtherBodies ==
    { <<>>,                                              \* an empty body
      <<JunkTok("<html>")>>,                             \* an HTML error page
      <<Punct("["), Punct("]")>>,                        \* []
      <<Punct("["), StrTok("accountNumber"), Punct(","), StrTok("intervals"), Punct("]")>>,
      <<StrTok("accountNumber")>>,                       \* a bare string
      <<LitTok("null")>>,
      <<NumTok("1")>>,
      <<Punct("{"), StrTok("accountNumber"), Punct(":")>>,    \* cut short
      <<Punct("{"), Punct("}"), Punct("{"), Punct("}")>>,     \* extra data
      <<Punct("["), NumTok("1"), Punct(","), Punct("]")>>,    \* trailing comma
      \* {"accountNumber":"A1","intervals":[],"accountNumber":"A2"}
      <<Punct("{"), StrTok("accountNumber"), Punct(":"), StrTok("A1"), Punct(","),
        StrTok("intervals"), Punct(":"), Punct("["), Punct("]"), Punct(","),
        StrTok("accountNumber"), Punct(":"), StrTok("A2"), Punct("}")>>,
      \* {"accountNumber":"A1","intervals":[{"kwh":1.50},{"kwh":1e2}]}
      <<Punct("{"), StrTok("accountNumber"), Punct(":"), StrTok("A1"), Punct(","),
        StrTok("intervals"), Punct(":"), Punct("["),
        Punct("{"), StrTok("kwh"), Punct(":"), NumTok("1.50"), Punct("}"), Punct(","),
        Punct("{"), StrTok("kwh"), Punct(":"), NumTok("1e2"), Punct("}"),
        Punct("]"), Punct("}")>>,
      \* {"accountNumber":1e999,"intervals":[]}
      <<Punct("{"), StrTok("accountNumber"), Punct(":"), NumTok("1e999"), Punct(","),
        StrTok("intervals"), Punct(":"), Punct("["), Punct("]"), Punct("}")>>,
      \* {"accountNumber":NaN,"intervals":[]}: no JSON, but json.loads reads it
      <<Punct("{"), StrTok("accountNumber"), Punct(":"), NumTok("NaN"), Punct(","),
        StrTok("intervals"), Punct(":"), Punct("["), Punct("]"), Punct("}")>> }

Bodies == ObjectBodies \cup OtherBodies

\* Response.json() of every body the remote end may send
ResponseJson == [body \in Bodies |-> loads(body)]

\* GMPcontent before line 37 binds it
NoResponse == [status_code |-> 0, elapsed |-> 0, content |-> <<>>]

-----------------------------------------------------------------------------
(* The state after lines 1-24: the user-supplied variables are bound *)

Unstarted ==
    /\ GMPapi = <<>> /\ idSecret = <<>> /\ b64Key = <<>> /\ reqHead = {}
    /\ GMPcontent = NoResponse
    /\ json_GMPcontent = Unbound
    /\ outfile = NoFile
    /\ pc = "L27"
    /\ exc = "none"
    /\ wire = <<>>
    /\ stdout = <<>>

\* a whole run, on either os, over the files earlier runs may have left
Init ==
    /\ \E c \in RunConfigs :
          /\ GMPaccount = c[1] /\ apiKeyId = c[2] /\ apiKeySecret = c[3]
          /\ requestInterval = c[4] /\ startDate = c[5] /\ endDate = c[6]
    /\ Unstarted
    /\ platform \in {"posix", "nt"}
    /\ fs0 \in InitialFileSystems
    /\ fs = fs0

\* the run up to the request, for every input
InitRequest ==
    /\ GMPaccount \in Accounts
    /\ apiKeyId \in StringsUpTo(KeyChars, MaxIdLen)
    /\ apiKeySecret \in StringsUpTo(KeyChars, MaxSecretLen)
    /\ requestInterval \in Intervals
    /\ \E d \in DateRanges : startDate = d[1] /\ endDate = d[2]
    /\ Unstarted
    /\ platform = "nt"
    /\ fs0 = <<>>
    /\ fs = fs0

-----------------------------------------------------------------------------
(* The statements *)

\* an uncaught exception ends the run
Raise(e) == exc' = e /\ pc' = "failed"

\* line 27
AssembleURL ==
    /\ pc = "L27"
    /\ GMPapi' = AssembledURL(GMPaccount, requestInterval, startDate, endDate)
    /\ pc' = "L30"
    /\ UNCHANGED <<config, idSecret, b64Key, reqHead, GMPcontent, json_GMPcontent,
                   outfile, exc, wire, stdout, platform, fs, fs0>>

\* line 30
JoinCredentials ==
    /\ pc = "L30"
    /\ idSecret' = JoinIdSecret(apiKeyId, apiKeySecret)
    /\ pc' = "L31"
    /\ UNCHANGED <<config, GMPapi, b64Key, reqHead, GMPcontent, json_GMPcontent,
                   outfile, exc, wire, stdout, platform, fs, fs0>>

\* line 31
EncodeCredentials ==
    /\ pc = "L31"
    /\ b64Key' = EncodeKey(idSecret)
    /\ pc' = "L32"
    /\ UNCHANGED <<config, GMPapi, idSecret, reqHead, GMPcontent, json_GMPcontent,
                   outfile, exc, wire, stdout, platform, fs, fs0>>

\* lines 32-34
BuildHeaders ==
    /\ pc = "L32"
    /\ reqHead' = AuthHeaders(b64Key)
    /\ pc' = "L37"
    /\ UNCHANGED <<config, GMPapi, idSecret, b64Key, GMPcontent, json_GMPcontent,
                   outfile, exc, wire, stdout, platform, fs, fs0>>

\* line 37, the call: requests.get puts the request on the network and blocks
IssueGet ==
    /\ pc = "L37"
    /\ wire' = Append(wire, [method |-> "GET", url |-> GMPapi, headers |-> reqHead])
    /\ pc' = "L37wait"
    /\ UNCHANGED <<config, GMPapi, idSecret, b64Key, reqHead, GMPcontent,
                   json_GMPcontent, outfile, exc, stdout, platform, fs, fs0>>

\* line 37, the call returns a response, whatever its status; no timeout is
\* set, so it may as well never return (no step is taken then)
GetReturns ==
    /\ pc = "L37wait"
    /\ \E st \in Statuses, el \in 0..MaxElapsed, body \in Bodies :
          GMPcontent' = [status_code |-> st, elapsed |-> el, content |-> body]
    /\ pc' = "L38"
    /\ UNCHANGED <<config, GMPapi, idSecret, b64Key, reqHead, json_GMPcontent,
                   outfile, exc, wire, stdout, platform, fs, fs0>>

\* GetRaises with one retry: the first failure goes back to line 37
GetRaises_RetryOnce ==
    /\ pc = "L37wait"
    /\ IF Len(wire) < 2 THEN pc' = "L37" /\ exc' = exc ELSE Raise("ConnectionError")
    /\ UNCHANGED <<config, GMPapi, idSecret, b64Key, reqHead, GMPcontent,
                   json_GMPcontent, outfile, wire, stdout, platform, fs, fs0>>

\* GetRaises with the exception caught and the script going on
GetRaises_Swallowed ==
    /\ pc = "L37wait"
    /\ exc' = "ConnectionError"
    /\ pc' = "L38"
    /\ UNCHANGED <<config, GMPapi, idSecret, b64Key, reqHead, GMPcontent,
                   json_GMPcontent, outfile, wire, stdout, platform, fs, fs0>>

\* line 37, the call raises: DNS, connection refused, TLS
GetRaises ==
    /\ pc = "L37wait"
    /\ Raise("ConnectionError")
    /\ UNCHANGED <<config, GMPapi, idSecret, b64Key, reqHead, GMPcontent,
                   json_GMPcontent, outfile, wire, stdout, platform, fs, fs0>>

\* PrintStatus followed by raise_for_status()
PrintStatus_RaiseForStatus ==
    /\ pc = "L38"
    /\ stdout' = Append(stdout, GMPcontent.status_code)
    /\ IF GMPcontent.status_code >= 400 THEN Raise("HTTPError")
       ELSE pc' = "L39" /\ exc' = exc
    /\ UNCHANGED <<config, GMPapi, idSecret, b64Key, reqHead, GMPcontent,
                   json_GMPcontent, outfile, wire, platform, fs, fs0>>

\* line 38
PrintStatus ==
    /\ pc = "L38"
    /\ stdout' = Append(stdout, GMPcontent.status_code)
    /\ pc' = "L39"
    /\ UNCHANGED <<config, GMPapi, idSecret, b64Key, reqHead, GMPcontent,
                   json_GMPcontent, outfile, exc, wire, platform, fs, fs0>>

\* line 39
PrintElapsed ==
    /\ pc = "L39"
    /\ stdout' = Append(stdout, GMPcontent.elapsed)
    /\ pc' = "L41"
    /\ UNCHANGED <<config, GMPapi, idSecret, b64Key, reqHead, GMPcontent,
                   json_GMPcontent, outfile, exc, wire, platform, fs, fs0>>

\* line 41
DecodeJson ==
    /\ pc = "L41"
    /\ LET r == ResponseJson[GMPcontent.content] IN
          IF r.ok
          THEN json_GMPcontent' = r.val /\ pc' = "L42" /\ exc' = exc
          ELSE Raise("JSONDecodeError") /\ json_GMPcontent' = json_GMPcontent
    /\ UNCHANGED <<config, GMPapi, idSecret, b64Key, reqHead, GMPcontent, outfile,
                   wire, stdout, platform, fs, fs0>>

\* LookupAccountNumber with the lookup left out
LookupAccountNumber_Skipped ==
    /\ pc = "L42"
    /\ pc' = "L43"
    /\ UNCHANGED <<config, GMPapi, idSecret, b64Key, reqHead, GMPcontent,
                   json_GMPcontent, outfile, exc, wire, stdout, platform, fs, fs0>>

\* line 42: an expression statement, its value is dropped
LookupAccountNumber ==
    /\ pc = "L42"
    /\ \E r \in {Subscript(json_GMPcontent, "accountNumber")} :
          IF r = "ok" THEN pc' = "L43" /\ exc' = exc ELSE Raise(r)
    /\ UNCHANGED <<config, GMPapi, idSecret, b64Key, reqHead, GMPcontent,
                   json_GMPcontent, outfile, wire, stdout, platform, fs, fs0>>

\* line 43: an expression statement, its value is dropped
LookupIntervals ==
    /\ pc = "L43"
    /\ \E r \in {Subscript(json_GMPcontent, "intervals")} :
          IF r = "ok" THEN pc' = "L45" /\ exc' = exc ELSE Raise(r)
    /\ UNCHANGED <<config, GMPapi, idSecret, b64Key, reqHead, GMPcontent,
                   json_GMPcontent, outfile, wire, stdout, platform, fs, fs0>>

\* line 45, open() returns: mode "w" creates the file or empties it
OpenOutfile ==
    /\ pc = "L45"
    /\ LET loc == ResolvePath(OutPath, platform) IN
          /\ fs' = Truncated(fs, loc)
          /\ outfile' = [state |-> "open", loc |-> loc]
    /\ pc' = "L46"
    /\ UNCHANGED <<config, GMPapi, idSecret, b64Key, reqHead, GMPcontent,
                   json_GMPcontent, exc, wire, stdout, platform, fs0>>

\* OpenRaises with the file created empty before the failure
OpenRaises_AfterCreate ==
    /\ pc = "L45"
    /\ fs' = Truncated(fs, ResolvePath(OutPath, platform))
    /\ Raise("OSError")
    /\ UNCHANGED <<config, GMPapi, idSecret, b64Key, reqHead, GMPcontent,
                   json_GMPcontent, outfile, wire, stdout, platform, fs0>>

\* line 45, open() raises: no such directory, no permission
OpenRaises ==
    /\ pc = "L45"
    /\ Raise("OSError")
    /\ UNCHANGED <<config, GMPapi, idSecret, b64Key, reqHead, GMPcontent,
                   json_GMPcontent, outfile, wire, stdout, platform, fs, fs0>>

\* d[key] of a dict that has the key
ItemOf(d, key) == d.items[CHOOSE i \in 1..Len(d.keys) : d.keys[i] = key]

\* DumpJson writing the two fields looked up and no other
DumpJson_LookedUpOnly ==
    /\ pc = "L46"
    /\ fs' = WithData(fs, outfile.loc,
                      Encode(PyDict(<<"accountNumber", "intervals">>,
                                    <<ItemOf(json_GMPcontent, "accountNumber"),
                                      ItemOf(json_GMPcontent, "intervals")>>)))
    /\ pc' = "L46exit"
    /\ UNCHANGED <<config, GMPapi, idSecret, b64Key, reqHead, GMPcontent,
                   json_GMPcontent, outfile, exc, wire, stdout, platform, fs0>>

\* line 46, every chunk is written
DumpJson ==
    /\ pc = "L46"
    /\ fs' = WithData(fs, outfile.loc, Encode(json_GMPcontent))
    /\ pc' = "L46exit"
    /\ UNCHANGED <<config, GMPapi, idSecret, b64Key, reqHead, GMPcontent,
                   json_GMPcontent, outfile, exc, wire, stdout, platform, fs0>>

\* line 46, a write raises (disk full, device gone) after n chunks
DumpRaises ==
    /\ pc = "L46"
    /\ \E n \in 0..(Len(Encode(json_GMPcontent)) - 1) :
          fs' = WithData(fs, outfile.loc, SubSeq(Encode(json_GMPcontent), 1, n))
    /\ exc' = "OSError"
    /\ pc' = "L46exit"
    /\ UNCHANGED <<config, GMPapi, idSecret, b64Key, reqHead, GMPcontent,
                   json_GMPcontent, outfile, wire, stdout, platform, fs0>>

\* ExitWith as a close() after the dump would be: skipped by an exception
ExitWith_LeakOnError ==
    /\ pc = "L46exit"
    /\ outfile' = IF exc = "none" THEN [outfile EXCEPT !.state = "closed"] ELSE outfile
    /\ pc' = IF exc = "none" THEN "done" ELSE "failed"
    /\ UNCHANGED <<config, GMPapi, idSecret, b64Key, reqHead, GMPcontent,
                   json_GMPcontent, exc, wire, stdout, platform, fs, fs0>>

\* lines 45-46, leaving the with block: the file is closed, and an exception
\* raised in the block goes on
ExitWith ==
    /\ pc = "L46exit"
    /\ outfile' = [outfile EXCEPT !.state = "closed"]
    /\ pc' = IF exc = "none" THEN "done" ELSE "failed"
    /\ UNCHANGED <<config, GMPapi, idSecret, b64Key, reqHead, GMPcontent,
                   json_GMPcontent, exc, wire, stdout, platform, fs, fs0>>

NextRequest ==
    \/ AssembleURL \/ JoinCredentials \/ EncodeCredentials \/ BuildHeaders
    \/ IssueGet

Next ==
    \/ AssembleURL \/ JoinCredentials \/ EncodeCredentials \/ BuildHeaders
    \/ IssueGet \/ GetReturns \/ GetRaises
    \/ PrintStatus \/ PrintElapsed
    \/ DecodeJson \/ LookupAccountNumber \/ LookupIntervals
    \/ OpenOutfile \/ OpenRaises \/ DumpJson \/ DumpRaises \/ ExitWith

Spec == Init /\ [][Next]_vars

\* what the interpreter does on its own: every statement but the return of
\* the blocking call of line 37, which is the remote end's to give
Statement ==
    \/ AssembleURL \/ JoinCredentials \/ EncodeCredentials \/ BuildHeaders
    \/ IssueGet
    \/ PrintStatus \/ PrintElapsed
    \/ DecodeJson \/ LookupAccountNumber \/ LookupIntervals
    \/ OpenOutfile \/ OpenRaises \/ DumpJson \/ DumpRaises \/ ExitWith

\* a run whose interpreter keeps running: a statement that can run does
FairSpec == Spec /\ WF_vars(Statement)

SpecRequest == InitRequest /\ [][NextRequest]_vars

-----------------------------------------------------------------------------
(* What the properties below speak of *)

\* the run is over
Terminal == pc \in {"done", "failed"}

\* line 37 has returned a response
Responded == GMPcontent # NoResponse

\* the response body as json.loads reads it
Decoded == loads(GMPcontent.content)

\* the decoded body is an object that has both keys the script looks up
HasBothKeys(v) == Subscript(v, "accountNumber") = "ok" /\ Subscript(v, "intervals") = "ok"

\* the body is JSON as RFC 8259 has it: json.loads reads it and it holds no
\* NaN or Infinity literal
ValidJson(toks) ==
    /\ loads(toks).ok
    /\ \A i \in 1..Len(toks) : ~(toks[i].k = "num" /\ toks[i].v \in NonFiniteLiterals)

\* the file the run opened holds every chunk of the decoded response
Persisted ==
    /\ outfile.state # "unbound"
    /\ outfile.loc \in DOMAIN fs
    /\ fs[outfile.loc] = Encode(json_GMPcontent)

RECURSIVE DeepEquals(_, _)
\* Python's == on decoded values: dicts compare without regard to key
\* order, and nan equals nothing
DeepEquals(a, b) ==
    /\ a.t = b.t
    /\ CASE a.t = "num" -> a.s = b.s /\ a.s # "NaN"
         [] a.t = "list" ->
               /\ Len(a.items) = Len(b.items)
               /\ \A i \in 1..Len(a.items) : DeepEquals(a.items[i], b.items[i])
         [] a.t = "dict" ->
               /\ {a.keys[i] : i \in 1..Len(a.keys)} = {b.keys[i] : i \in 1..Len(b.keys)}
               /\ \A i \in 1..Len(a.keys) : \A j \in 1..Len(b.keys) :
                     a.keys[i] = b.keys[j] => DeepEquals(a.items[i], b.items[j])
         [] OTHER -> a.s = b.s

\* the file dat4.json in the parent of the working directory
ParentDat4 == [up |-> 1, names |-> << <<100, 97, 116, 52, 46, 106, 115, 111, 110>> >>]

\* the index of a base64 character in the alphabet, 64 if it has none
B64Index(c) ==
    IF \E i \in 1..64 : B64Alphabet[i] = c
    THEN (CHOOSE i \in 1..64 : B64Alphabet[i] = c) - 1
    ELSE 64

RECURSIVE B64Decode(_)
\* strict standard base64 decoding: [ok, bytes]
B64Decode(s) ==
    IF s = <<>> THEN [ok |-> TRUE, bytes |-> <<>>]
    ELSE IF Len(s) < 4 THEN [ok |-> FALSE, bytes |-> <<>>]
    ELSE LET a == B64Index(s[1])
             b == B64Index(s[2])
             c == B64Index(s[3])
             d == B64Index(s[4])
             rest == B64Decode(SubSeq(s, 5, Len(s)))
         IN  IF a = 64 \/ b = 64 THEN [ok |-> FALSE, bytes |-> <<>>]
             ELSE IF s[3] = 61 /\ s[4] = 61
                  THEN [ok |-> Len(s) = 4 /\ b % 16 = 0, bytes |-> <<a * 4 + (b \div 16)>>]
             ELSE IF s[4] = 61
                  THEN [ok |-> Len(s) = 4 /\ c # 64 /\ c % 4 = 0,
                        bytes |-> <<a * 4 + (b \div 16), (b % 16) * 16 + (c \div 4)>>]
             ELSE [ok |-> c # 64 /\ d # 64 /\ rest.ok,
                   bytes |-> <<a * 4 + (b \div 16), (b % 16) * 16 + (c \div 4),
                               (c % 4) * 64 + d>> \o rest.bytes]

RECURSIVE Utf8Decode(_)
\* bytes.decode("utf-8"): [ok, str]
Utf8Decode(bytes) ==
    IF bytes = <<>> THEN [ok |-> TRUE, str |-> <<>>]
    ELSE IF bytes[1] < 128
         THEN LET r == Utf8Decode(Tail(bytes))
              IN  [ok |-> r.ok, str |-> <<bytes[1]>> \o r.str]
    ELSE IF bytes[1] \in 194..223 /\ Len(bytes) >= 2 /\ bytes[2] \in 128..191
         THEN LET r == Utf8Decode(SubSeq(bytes, 3, Len(bytes)))
              IN  [ok |-> r.ok, str |-> <<(bytes[1] - 192) * 64 + (bytes[2] - 128)>> \o r.str]
    ELSE IF bytes[1] \in 224..239 /\ Len(bytes) >= 3 /\ bytes[2] \in 128..191
                /\ bytes[3] \in 128..191
         THEN LET r == Utf8Decode(SubSeq(bytes, 4, Len(bytes)))
              IN  [ok |-> r.ok,
                   str |-> <<(bytes[1] - 224) * 4096 + (bytes[2] - 128) * 64
                              + (bytes[3] - 128)>> \o r.str]
    ELSE [ok |-> FALSE, str |-> <<>>]

\* the index of the first ":" of s, 0 if it has none
FirstColon(s) ==
    IF \E i \in 1..Len(s) : s[i] = 58
    THEN CHOOSE i \in 1..Len(s) : s[i] = 58 /\ \A j \in 1..(i - 1) : s[j] # 58
    ELSE 0

\* s split on its first ":"
SplitFirstColon(s) ==
    <<SubSeq(s, 1, FirstColon(s) - 1), SubSeq(s, FirstColon(s) + 1, Len(s))>>

\* the value of the Authorization header line 37 would send
AuthValue == (CHOOSE h \in reqHead : h.name = "Authorization").value

\* the payload of the header: what follows "Basic "
AuthPayload == SubSeq(AuthValue, Len(BasicPrefix) + 1, Len(AuthValue))

\* the header is "Basic " and the standard base64 of the UTF-8 bytes of
\* apiKeyId ":" apiKeySecret
HeaderIsBasicOfIdSecret ==
    /\ Cardinality(reqHead) = 1
    /\ \A h \in reqHead : h.name = "Authorization"
    /\ SubSeq(AuthValue, 1, Len(BasicPrefix)) = BasicPrefix
    /\ B64Decode(AuthPayload).ok
    /\ Utf8Decode(B64Decode(AuthPayload).bytes).ok
    /\ Utf8Decode(B64Decode(AuthPayload).bytes).str = apiKeyId \o <<58>> \o apiKeySecret

\* decoding the payload and splitting on the first colon gives id and secret
HeaderRoundTrips ==
    SplitFirstColon(Utf8Decode(B64Decode(AuthPayload).bytes).str) = <<apiKeyId, apiKeySecret>>

\* the header has been built
HeaderBuilt == pc \in {"L37", "L37wait"}

\* url is the template of line 27 with every input in its place, unchanged
IsTemplateOf(url, account, interval, start, end) ==
    LET a == Len(GMPapiURL)
        b == a + Len(account)
        c == b + 1
        d == c + Len(interval)
        e == d + Len(QStartDate)
        f == e + Len(start)
        g == f + Len(StartSuffix)
        h == g + Len(end)
    IN  /\ Len(url) = h + Len(EndSuffix)
        /\ SubSeq(url, 1, a) = GMPapiURL
        /\ SubSeq(url, a + 1, b) = account
        /\ url[c] = 47
        /\ SubSeq(url, c + 1, d) = interval
        /\ SubSeq(url, d + 1, e) = QStartDate
        /\ SubSeq(url, e + 1, f) = start
        /\ SubSeq(url, f + 1, g) = StartSuffix
        /\ SubSeq(url, g + 1, h) = end
        /\ SubSeq(url, h + 1, Len(url)) = EndSuffix

-----------------------------------------------------------------------------
(* Properties *)

\* no run issues a second GET; a run that ends has either put the decoded
\* response in the file or failed with one of the exceptions named in
\* kinds, never both
OneGetTwoOutcomes(kinds) ==
    /\ Len(wire) <= 1
    /\ \A i \in 1..Len(wire) : wire[i].method = "GET"
    /\ pc = "done" => exc = "none" /\ Persisted
    /\ pc = "failed" => exc \in kinds /\ ~Persisted

\* C1 as stated: every run issues at most one GET, and every run whose
\* network call comes back ends in exactly one of two outcomes: the decoded
\* response is in the output file, or a transport, JSON-decode, key-lookup
\* or file-system failure has propagated.
C1_AsStated ==
    OneGetTwoOutcomes({"ConnectionError", "JSONDecodeError", "KeyError", "OSError"})

\* C1 amended: the same, the failures being a transport, JSON-decode,
\* key-lookup, type (the decoded body is no object) or file-system error.
C1_OneGetTwoOutcomes ==
    /\ []OneGetTwoOutcomes({"ConnectionError", "JSONDecodeError", "KeyError",
                            "TypeError", "OSError"})
    /\ (pc = "L37wait") ~> (pc = "L37wait" \/ Terminal)
    /\ Responded ~> Terminal

\* both outcomes of C1 have happened after exactly one GET: here the failure
C1_Witness ==
    /\ pc = "failed" /\ exc = "TypeError" /\ Len(wire) = 1 /\ Responded

\* C2 as stated: a body that is valid JSON but lacks accountNumber or
\* intervals makes the run fail with a key-lookup error before the output
\* file is opened or written, and the run produces no output file.
C2_AsStated ==
    Responded /\ ValidJson(GMPcontent.content) /\ ~HasBothKeys(Decoded.val)
    => /\ pc \in {"L38", "L39", "L41", "L42", "L43", "failed"}
       /\ pc = "failed" => exc = "KeyError"
       /\ outfile = NoFile
       /\ fs = fs0

\* C2 amended: a body that is a JSON object lacking accountNumber or
\* intervals makes the run fail with a key-lookup error, and a valid JSON
\* body that is no object makes it fail with a type error; either way the
\* failure comes before the output file is opened or written, and the run
\* produces no output file.
C2_MissingKeyFailsBeforeOpen ==
    Responded /\ ValidJson(GMPcontent.content) /\ ~HasBothKeys(Decoded.val)
    => /\ pc \in {"L38", "L39", "L41", "L42", "L43", "failed"}
       /\ pc = "failed" =>
             exc = (IF Decoded.val.t = "dict" THEN "KeyError" ELSE "TypeError")
       /\ outfile = NoFile
       /\ fs = fs0

\* the body {"intervals":[]} has failed the run with a KeyError
C2_Witness ==
    /\ pc = "failed" /\ exc = "KeyError"
    /\ GMPcontent.content = ObjectBody({"intervals"}, 0)

\* C3: when the GET fails at the transport level the run fails with a
\* transport error and none of the later steps has run: nothing was
\* printed, nothing decoded, no file opened, the file system is as it was.
C3_TransportFailureStopsRun ==
    (exc = "ConnectionError" \/ (Terminal /\ ~Responded))
    => /\ pc = "failed" /\ exc = "ConnectionError"
       /\ ~Responded
       /\ stdout = <<>>
       /\ json_GMPcontent = Unbound
       /\ outfile = NoFile
       /\ fs = fs0

\* the GET has failed, over a file an earlier run left
C3_Witness ==
    /\ pc = "failed" /\ exc = "ConnectionError" /\ Len(wire) = 1
    /\ ParentDat4 \in DOMAIN fs0

\* C4: the status code never affects control flow: how a run ends depends
\* on the body alone (and on the file system), whatever the status: both
\* prints happen; a body that does not decode fails with a JSON-decode
\* error, never a status error; a body with both keys is written to the file
\* unless the file system fails; a body without them fails at the lookup.
C4_StatusIgnored ==
    Terminal /\ Responded
    => /\ stdout = <<GMPcontent.status_code, GMPcontent.elapsed>>
       /\ ~Decoded.ok => pc = "failed" /\ exc = "JSONDecodeError"
       /\ Decoded.ok /\ ~HasBothKeys(Decoded.val) =>
             pc = "failed" /\ exc \in {"KeyError", "TypeError"}
       /\ Decoded.ok /\ HasBothKeys(Decoded.val) =>
             \/ pc = "done" /\ exc = "none" /\ Persisted
                   /\ json_GMPcontent = Decoded.val
             \/ pc = "failed" /\ exc = "OSError"

\* a 500 response with both keys has been written to the file
C4_Witness ==
    /\ pc = "done" /\ GMPcontent.status_code = 500 /\ Persisted
    /\ GMPcontent.content = ObjectBody({"accountNumber", "intervals", "extra"}, 0)

\* C5: pass-through: for a body that is valid JSON with both keys, after a
\* successful run the file's content, parsed as JSON, deep-equals the
\* decoded response object, which the two lookups left as decoded.
C5_PassThrough ==
    pc = "done" /\ ValidJson(GMPcontent.content)
    => /\ json_GMPcontent = Decoded.val
       /\ outfile.loc \in DOMAIN fs
       /\ loads(fs[outfile.loc]).ok
       /\ DeepEquals(loads(fs[outfile.loc]).val, json_GMPcontent)

\* a run has written a body with a third key and MaxIntervals intervals
C5_Witness ==
    /\ pc = "done"
    /\ GMPcontent.content = ObjectBody({"accountNumber", "intervals", "extra"}, MaxIntervals)

\* C6 as stated: after any run that ends in a failure the destination file
\* is absent or holds what it held before the run.
C6_AsStated == pc = "failed" => fs = fs0

\* C6 amended: after any run that fails before the output file has been
\* opened (a transport, JSON-decode, key-lookup or type error, or open()
\* itself failing) the destination file is absent or holds what it held
\* before the run; a failure of a write after the open leaves the file
\* empty or with the chunks written so far.
C6_FailureBeforeOpenKeepsFile ==
    /\ pc = "failed" /\ outfile = NoFile => fs = fs0
    /\ pc = "failed" /\ outfile # NoFile =>
          /\ exc = "OSError"
          /\ \E n \in 0..(Len(Encode(json_GMPcontent)) - 1) :
                fs = WithData(fs0, outfile.loc, SubSeq(Encode(json_GMPcontent), 1, n))

\* open() has failed over a file an earlier run left
C6_Witness ==
    /\ pc = "failed" /\ exc = "OSError" /\ outfile = NoFile
    /\ ResolvePath(OutPath, platform) \in DOMAIN fs0

\* C7: on a successful run the payload is in dat4.json in the parent of the
\* working directory, not in a file inside the working directory, and
\* what a file of that name held before is gone.
C7_WritesParentDat4 ==
    pc = "done"
    => /\ outfile.loc = ParentDat4
       /\ fs = WithData(fs0, ParentDat4, Encode(json_GMPcontent))

\* C8 as stated: the header is "Basic " and the base64 of id:secret, and
\* for every id and secret decoding its payload and splitting on the first
\* colon recovers the id and the secret.
C8_AsStated == HeaderBuilt => HeaderIsBasicOfIdSecret /\ HeaderRoundTrips

\* C8 amended: the header is "Basic " and the base64 of id:secret, and for
\* every id that holds no colon, and every secret, decoding its payload and
\* splitting on the first colon recovers the id and the secret.
C8_HeaderRoundTrip ==
    HeaderBuilt
    => /\ HeaderIsBasicOfIdSecret
       /\ (\A i \in 1..Len(apiKeyId) : apiKeyId[i] # 58) => HeaderRoundTrips

\* the header of an id with a two-byte character and a secret with a colon
C8_Witness ==
    /\ HeaderBuilt /\ apiKeyId = <<97, 233>> /\ apiKeySecret = <<58>>
    /\ HeaderRoundTrips

\* C9: the URL of the GET is the template of line 27 with every input in
\* its place, character for character, and no interval value and no order
\* of the dates keeps the request from being sent.
C9_UrlVerbatim ==
    /\ pc # "L27" =>
          IsTemplateOf(GMPapi, GMPaccount, requestInterval, startDate, endDate)
    /\ pc = "L37wait" =>
          /\ Len(wire) = 1
          /\ wire[1].method = "GET"
          /\ IsTemplateOf(wire[1].url, GMPaccount, requestInterval, startDate, endDate)
    /\ pc # "L37wait" => ENABLED NextRequest /\ wire = <<>>

\* the request is out for an account with reserved characters, an interval
\* the API does not know and an end date before the start date
C9_Witness ==
    /\ pc = "L37wait" /\ Len(wire) = 1
    /\ GMPaccount = <<49, 32, 50, 47, 63>>
    /\ requestInterval = <<119, 101, 101, 107, 108, 121>>
    /\ startDate = Date06 /\ endDate = Date05

\* C10: the file handle is open only during the write step and closed on
\* every way out: no run ends with it open, a run that succeeds or fails
\* after the open ends with it closed, and a run that fails before the
\* write step never opened it.
C10_HandleClosed ==
    /\ outfile.state = "open" => pc \in {"L46", "L46exit"}
    /\ pc \in {"L46", "L46exit"} => outfile.state = "open"
    /\ pc = "done" => outfile.state = "closed"
    /\ pc = "failed" => outfile.state \in {"unbound", "closed"}
    /\ pc = "failed" /\ exc # "OSError" => outfile = NoFile
    /\ pc = "failed" /\ fs # fs0 => outfile.state = "closed"

\* a write has failed and the run has ended with the handle closed
C10_Witness ==
    /\ pc = "failed" /\ exc = "OSError" /\ outfile.state = "closed"

====
